---------------------------- MODULE Spec2Model ----------------------------
(***************************************************************************)
(* City Map Poster Generator (terraposter): the two-tier cache (map-data   *)
(* cache, output registry), the retry primitive and the orchestrator of    *)
(* main.py, as a state machine.                                            *)
(*                                                                         *)
(* Text is a sequence of one-character strings, so that lower-casing,      *)
(* joining with "|" and prefix tests are computed as the code computes     *)
(* them.  Coordinates are integers in units of 1e-7 degree, so that the    *)
(* 6-decimal formatting of the cache key really rounds.  Sleeps are in     *)
(* tenths of a second.  sha256(...)[:16] is taken to be collision free:    *)
(* a key is represented by the string that is hashed.                      *)
(***************************************************************************)
EXTENDS Integers, Sequences, FiniteSets, TLC

VARIABLES
    index,        \* generated_posters.json: [kind, entries]
    cache,        \* .cache/<key>.pkl files: key -> [ok, data]
    files,        \* output files that exist under ROOT_DIR (relative paths)
    clock,        \* datetime.now(), one tick per invocation
    runs,         \* invocations started so far
    pc,           \* position of the running invocation in main()
    args,         \* argparse namespace (+ sys.argv form of the distance, cwd)
    eff,          \* derived parameters: effective_dpi, distance, figsize, theme
    point,        \* geocoded (lat, lon)
    output_path,  \* generate_output_filename(...)
    previous,     \* result of check_previous_output
    data,         \* (G, water, parks) held in memory
    attempt,      \* retry_call: attempt number of the call in progress
    sleeps,       \* retry_call: the waits slept by the call in progress
    exit,         \* process exit status (-1 while running)
    did,          \* what this invocation has done so far (set of event names)
    call,         \* component-level use: the last call and its result
    before,       \* component-level use: the call before the last
    shadow        \* component-level use: payload of the last successful put per key

vars == <<index, cache, files, clock, runs, pc, args, eff, point, output_path,
          previous, data, attempt, sleeps, exit, did, call, before, shadow>>

world == <<index, cache, files>>
local == <<args, eff, point, output_path, previous, data, attempt, sleeps>>
harness == <<call, before, shadow>>

None == [none |-> TRUE]

---------------------------------------------------------------------------
(* Text helpers *)

\* str.lower() on one character
LowerChar(c) ==
    CASE c = "A" -> "a"
      [] c = "B" -> "b"
      [] c = "C" -> "c"
      [] c = "D" -> "d"
      [] c = "E" -> "e"
      [] c = "F" -> "f"
      [] c = "G" -> "g"
      [] c = "H" -> "h"
      [] c = "I" -> "i"
      [] c = "J" -> "j"
      [] c = "K" -> "k"
      [] c = "L" -> "l"
      [] c = "M" -> "m"
      [] c = "N" -> "n"
      [] c = "O" -> "o"
      [] c = "P" -> "p"
      [] c = "Q" -> "q"
      [] c = "R" -> "r"
      [] c = "S" -> "s"
      [] c = "T" -> "t"
      [] c = "U" -> "u"
      [] c = "V" -> "v"
      [] c = "W" -> "w"
      [] c = "X" -> "x"
      [] c = "Y" -> "y"
      [] c = "Z" -> "z"
      [] OTHER -> c

Lower(s) == [i \in 1..Len(s) |-> LowerChar(s[i])]

IsWhite(c) == c = " "

StartsWith(s, p) == Len(s) >= Len(p) /\ SubSeq(s, 1, Len(p)) = p

DigitChar(d) ==
    CASE d = 0 -> "0" [] d = 1 -> "1" [] d = 2 -> "2" [] d = 3 -> "3"
      [] d = 4 -> "4" [] d = 5 -> "5" [] d = 6 -> "6" [] d = 7 -> "7"
      [] d = 8 -> "8" [] d = 9 -> "9"

RECURSIVE NatStr(_)
NatStr(n) == IF n < 10 THEN <<DigitChar(n)>>
             ELSE NatStr(n \div 10) \o <<DigitChar(n % 10)>>

\* f"{n}" of an int
IntStr(n) == IF n < 0 THEN <<"-">> \o NatStr(-n) ELSE NatStr(n)

DigitVal(c) ==
    CASE c = "0" -> 0 [] c = "1" -> 1 [] c = "2" -> 2 [] c = "3" -> 3
      [] c = "4" -> 4 [] c = "5" -> 5 [] c = "6" -> 6 [] c = "7" -> 7
      [] c = "8" -> 8 [] c = "9" -> 9 [] OTHER -> -1

RECURSIVE ParseNat(_)
\* int(s) for an unsigned decimal literal; -1 when int() raises ValueError
ParseNat(s) ==
    IF Len(s) = 0 THEN -1
    ELSE LET d == DigitVal(s[Len(s)]) IN
         IF d < 0 THEN -1
         ELSE IF Len(s) = 1 THEN d
         ELSE LET r == ParseNat(SubSeq(s, 1, Len(s) - 1)) IN
              IF r < 0 THEN -1 ELSE 10 * r + d

RECURSIVE Split(_, _)
\* s.split(sep) for a one-character separator
Split(s, sep) ==
    IF \A i \in 1..Len(s) : s[i] # sep THEN <<s>>
    ELSE LET i == CHOOSE j \in 1..Len(s) :
                      s[j] = sep /\ \A k \in 1..(j-1) : s[k] # sep
         IN <<SubSeq(s, 1, i - 1)>> \o Split(SubSeq(s, i + 1, Len(s)), sep)

Bar == <<"|">>

---------------------------------------------------------------------------
(* src/output_cache.py: the output registry *)

\* key_str of _make_output_key; the sha256 prefix of it is taken collision free
KeyStr(city, country, theme, distance, size, dpi, format) ==
    Lower(city) \o Bar \o Lower(country) \o Bar \o Lower(theme) \o Bar
    \o IntStr(distance) \o Bar \o Lower(size) \o Bar \o IntStr(dpi) \o Bar
    \o Lower(format)

MakeOutputKey(p) ==
    KeyStr(p.city, p.country, p.theme, p.distance, p.size, p.dpi, p.format)

NoEntries == <<>>

\* The registry file on disk: absent, not JSON, JSON that is a list or a
\* string ("list"), JSON null, number or boolean ("scalar"), or a JSON object.
IndexMissing == [kind |-> "missing", entries |-> NoEntries]
IndexGarbage == [kind |-> "garbage", entries |-> NoEntries]
IndexList    == [kind |-> "list", entries |-> NoEntries]
IndexScalar  == [kind |-> "scalar", entries |-> NoEntries]
IndexMap(e)  == [kind |-> "map", entries |-> e]

\* The mutant does not recover from a file that is not JSON
LoadOutputIndexNoRecovery(ix) ==
    IF ix.kind = "missing" THEN IndexMap(NoEntries)
    ELSE IF ix.kind = "garbage" THEN IndexScalar ELSE ix

\* load_output_index: a missing file and a JSON error give {}; whatever
\* json.load returns otherwise is returned as it is.
LoadOutputIndex(ix) ==
    IF ix.kind \in {"missing", "garbage"} THEN IndexMap(NoEntries) ELSE ix

\* Outcomes of opening a file for writing and dumping into it
IoOutcomes == {"ok", "open_fail", "write_fail"}

\* save_output_index: open("w") truncates; an error at open leaves the file as
\* it was, an error while dumping leaves a partial document; both are swallowed.
SaveOutputIndex(old, entries, io) ==
    CASE io = "ok" -> IndexMap(entries)
      [] io = "open_fail" -> old
      [] io = "write_fail" -> IndexGarbage

\* The mutant never finds anything
CheckPreviousOutputBlind(ix, p) == [raised |-> FALSE, value |-> None]

\* check_previous_output: `key in index` raises TypeError on null, a number or
\* a boolean, and is False on a list or a string.
CheckPreviousOutput(ix, p) ==
    LET loaded == LoadOutputIndex(ix)
        key == MakeOutputKey(p)
    IN  IF loaded.kind = "scalar" THEN [raised |-> TRUE, value |-> None]
        ELSE IF loaded.kind = "map" /\ key \in DOMAIN loaded.entries
             THEN [raised |-> FALSE, value |-> loaded.entries[key]]
        ELSE [raised |-> FALSE, value |-> None]

\* The record built by record_new_output; path.root says whether output_path
\* lies under ROOT_DIR (relative_to raises ValueError otherwise).
NewRecord(p, path, now) ==
    [path |-> path.rel, generated_at |-> now, city |-> p.city,
     country |-> p.country, theme |-> p.theme, distance_m |-> p.distance,
     size |-> p.size, dpi |-> p.dpi, format |-> p.format]

\* record_new_output: index[key] = {...} raises TypeError unless the loaded
\* value is a mapping; nothing is written when it raises.
RecordNewOutput(ix, p, path, now, io) ==
    LET loaded == LoadOutputIndex(ix)
        key == MakeOutputKey(p)
    IN  IF ~path.root \/ loaded.kind # "map" THEN [raised |-> TRUE, index |-> ix]
        ELSE [raised |-> FALSE,
              index |-> SaveOutputIndex(ix,
                           (key :> NewRecord(p, path, now)) @@ loaded.entries, io)]

---------------------------------------------------------------------------
(* src/cache.py: the map-data cache *)

\* f"{x:.6f}" of a coordinate given in 1e-7 degree: the sign is printed even
\* when the magnitude rounds to zero.
Fmt6(x) == [neg |-> x < 0, mag |-> ((IF x < 0 THEN -x ELSE x) + 5) \div 10]

\* The mutant leaves the radius out of the key
MakeCacheKeyNoRadius(lat, lon, distance) == <<Fmt6(lat), Fmt6(lon), 0>>

\* _make_cache_key: the hashed string, as its three components
MakeCacheKey(lat, lon, distance) == <<Fmt6(lat), Fmt6(lon), distance>>

CorruptFile == [ok |-> FALSE, data |-> None]
GoodFile(d) == [ok |-> TRUE, data |-> d]

\* The mutant deletes an unreadable file instead of leaving it
GetCachedDataSelfHeal(c, lat, lon, distance) ==
    LET key == MakeCacheKey(lat, lon, distance) IN
    IF key \notin DOMAIN c THEN [value |-> None, raised |-> FALSE, cache |-> c]
    ELSE IF c[key].ok THEN [value |-> c[key].data, raised |-> FALSE, cache |-> c]
    ELSE [value |-> None, raised |-> FALSE,
          cache |-> [k \in DOMAIN c \ {key} |-> c[k]]]

\* The mutant returns nothing even for a readable file
GetCachedDataAlwaysMiss(c, lat, lon, distance) ==
    [value |-> None, raised |-> FALSE, cache |-> c]

\* get_cached_data: None when the file is absent or pickle.load raises
GetCachedData(c, lat, lon, distance) ==
    LET key == MakeCacheKey(lat, lon, distance) IN
    IF key \notin DOMAIN c THEN [value |-> None, raised |-> FALSE, cache |-> c]
    ELSE IF c[key].ok THEN [value |-> c[key].data, raised |-> FALSE, cache |-> c]
    ELSE [value |-> None, raised |-> FALSE, cache |-> c]

\* The mutant lets the I/O error out
SaveToCacheRaising(c, lat, lon, distance, d, io) ==
    LET key == MakeCacheKey(lat, lon, distance) IN
    CASE io = "ok" -> [raised |-> FALSE, cache |-> (key :> GoodFile(d)) @@ c]
      [] io = "open_fail" -> [raised |-> TRUE, cache |-> c]
      [] io = "write_fail" -> [raised |-> TRUE, cache |-> (key :> CorruptFile) @@ c]

\* save_to_cache: open("wb") truncates; every exception is swallowed
SaveToCache(c, lat, lon, distance, d, io) ==
    LET key == MakeCacheKey(lat, lon, distance) IN
    CASE io = "ok" -> [raised |-> FALSE, cache |-> (key :> GoodFile(d)) @@ c]
      [] io = "open_fail" -> [raised |-> FALSE, cache |-> c]
      [] io = "write_fail" -> [raised |-> FALSE, cache |-> (key :> CorruptFile) @@ c]

\* The mutant reports success without deleting
InvalidateNoDelete(c, lat, lon, distance, unlinkOk) == [raised |-> FALSE, cache |-> c]

\* main.py's --no-cache step: unlink the key's file if it exists; an OSError
\* of unlink is not caught here.
Invalidate(c, lat, lon, distance, unlinkOk) ==
    LET key == MakeCacheKey(lat, lon, distance) IN
    IF key \notin DOMAIN c THEN [raised |-> FALSE, cache |-> c]
    ELSE IF unlinkOk THEN [raised |-> FALSE, cache |-> [k \in DOMAIN c \ {key} |-> c[k]]]
    ELSE [raised |-> TRUE, cache |-> c]

---------------------------------------------------------------------------
(* Text constants of the program and of the modelled invocations *)

S_default == <<"d", "e", "f", "a", "u", "l", "t">>
S_desktop_fhd == <<"d", "e", "s", "k", "t", "o", "p", "-", "f", "h", "d">>
S_desktop_qhd == <<"d", "e", "s", "k", "t", "o", "p", "-", "q", "h", "d">>
S_desktop_4k == <<"d", "e", "s", "k", "t", "o", "p", "-", "4", "k">>
S_mobile_portrait == <<"m", "o", "b", "i", "l", "e", "-", "p", "o", "r", "t", "r", "a", "i", "t">>
S_custom_prefix == <<"c", "u", "s", "t", "o", "m", ":">>
S_png == <<"p", "n", "g">>
S_feature_based == <<"f", "e", "a", "t", "u", "r", "e", "_", "b", "a", "s", "e", "d">>
S_noir == <<"n", "o", "i", "r">>
S_Rome == <<"R", "o", "m", "e">>
S_rome == <<"r", "o", "m", "e">>
S_rome_padded == <<" ", "r", "o", "m", "e">>
S_Italy == <<"I", "t", "a", "l", "y">>
S_custom_bad == <<"c", "u", "s", "t", "o", "m", ":", "3", "x">>
S_Desktop_FHD == <<"D", "e", "s", "k", "t", "o", "p", "-", "F", "H", "D">>
S_Noir == <<"N", "o", "i", "r">>
S_a_bar_b == <<"a", "|", "b">>
S_b_bar_c == <<"b", "|", "c">>
S_a == <<"a">>
S_c == <<"c">>
S_fallback == <<"f", "a", "l", "l", "b", "a", "c", "k">>
---------------------------------------------------------------------------
(* main.py: derived parameters (lines 131-199) *)

MIN_DISTANCE_METERS == 1500
MAX_DISTANCE_METERS == 60000
DEFAULT_DISTANCE == 29000

\* SIZE_PRESETS: figsize as (w, h, per) meaning (w / per, h / per) inches;
\* distance_mult in tenths.  An unknown name falls back to "default".
SizePreset(name) ==
    CASE name = S_desktop_fhd -> [pixels |-> TRUE, w |-> 1920, h |-> 1080, distance_mult |-> 12]
      [] name = S_desktop_qhd -> [pixels |-> TRUE, w |-> 2560, h |-> 1440, distance_mult |-> 15]
      [] name = S_desktop_4k -> [pixels |-> TRUE, w |-> 3840, h |-> 2160, distance_mult |-> 18]
      [] name = S_mobile_portrait -> [pixels |-> TRUE, w |-> 1080, h |-> 1920, distance_mult |-> 6]
      [] OTHER -> [pixels |-> FALSE, w |-> 12, h |-> 16, distance_mult |-> 10]

\* distance_user_set: "--distance" in sys.argv or "-d" in sys.argv
DistanceUserSet(a) == a.dist_form \in {"-d N", "--distance N"}

\* Resolve DPI (lines 161-168)
EffectiveDpi(a) ==
    IF a.dpi_set THEN a.dpi
    ELSE IF a.quality = "screen" THEN 150
    ELSE IF a.quality = "high" THEN 600
    ELSE 300

\* The mutant takes the default preset for a custom size it cannot read
ResolveSizeLenient(a) ==
    [ok |-> TRUE, figsize |-> [w |-> 12, h |-> 16, per |-> 1], distance_mult |-> 10]

\* Resolve size preset (lines 171-186): ok = FALSE when the run exits with
\* status 1 here (a malformed custom size, or a division by a zero DPI).
ResolveSize(a) ==
    LET dpi == EffectiveDpi(a)
        bad == [ok |-> FALSE, figsize |-> None, distance_mult |-> 10]
    IN  IF StartsWith(a.size, S_custom_prefix)
        THEN LET rest == SubSeq(a.size, Len(S_custom_prefix) + 1, Len(a.size))
                 parts == Split(rest, "x")
             IN  IF Len(parts) # 2 THEN bad
                 ELSE IF ParseNat(parts[1]) < 0 \/ ParseNat(parts[2]) < 0 \/ dpi = 0
                      THEN bad
                 ELSE [ok |-> TRUE,
                       figsize |-> [w |-> ParseNat(parts[1]), h |-> ParseNat(parts[2]), per |-> dpi],
                       distance_mult |-> 10]
        ELSE LET preset == SizePreset(a.size) IN
             IF preset.pixels
             THEN IF dpi = 0 THEN bad
                  ELSE [ok |-> TRUE,
                        figsize |-> [w |-> preset.w, h |-> preset.h, per |-> dpi],
                        distance_mult |-> preset.distance_mult]
             ELSE [ok |-> TRUE,
                   figsize |-> [w |-> preset.w, h |-> preset.h, per |-> 1],
                   distance_mult |-> preset.distance_mult]

\* The mutant passes the distance on as it is
ClampNothing(d) == d

Clamp(d) ==
    IF d < MIN_DISTANCE_METERS THEN MIN_DISTANCE_METERS
    ELSE IF d > MAX_DISTANCE_METERS THEN MAX_DISTANCE_METERS
    ELSE d

\* Auto distance scaling and clamping (lines 189-196)
EffectiveDistance(a) ==
    LET mult == ResolveSize(a).distance_mult
        scaled == IF DistanceUserSet(a) THEN a.distance
                  ELSE (a.distance * mult) \div 10
    IN  Clamp(scaled)

\* The theme files present in themes/
ThemeFiles == {S_noir, S_feature_based}

\* load_theme: the file's theme, or the built-in fallback; never raises
LoadTheme(name) == IF name \in ThemeFiles THEN name ELSE S_fallback

\* The parameters handed to check_previous_output and record_new_output
Params(a, e) ==
    [city |-> a.city, country |-> a.country, theme |-> a.theme,
     distance |-> e.distance, size |-> a.size, dpi |-> e.dpi, format |-> a.format]

\* str.replace of one character by a text
ReplaceChar(s, c, by) ==
    LET RECURSIVE R(_)
        R(i) == IF i > Len(s) THEN <<>>
                ELSE (IF s[i] = c THEN by ELSE <<s[i]>>) \o R(i + 1)
    IN R(1)

\* generate_output_filename: the path relative to ROOT_DIR, always under it
GenerateOutputFilename(city, theme_name, output_format, now) ==
    LET slug == ReplaceChar(ReplaceChar(ReplaceChar(Lower(city), " ", <<"_">>),
                                        ",", <<>>), "'", <<>>)
    IN  [root |-> TRUE,
         rel |-> <<"p", "o", "s", "t", "e", "r", "s", "/">> \o slug \o <<"_">>
                 \o theme_name \o <<"_">> \o IntStr(now) \o <<".">>
                 \o Lower(output_format)]

---------------------------------------------------------------------------
(* src/utils.py: retry_call *)

\* The mutant gives up one attempt early
RetryOnFailureGivesUpEarly(max_retries, base_sleep, backoff_factor, att) ==
    IF att + 1 >= max_retries THEN [reraise |-> TRUE, wait |-> 0]
    ELSE [reraise |-> FALSE, wait |-> base_sleep * backoff_factor ^ (att - 1)]

\* The mutant sleeps after the last attempt too, before giving up
RetryOnFailureSleepsLast(max_retries, base_sleep, backoff_factor, att) ==
    [reraise |-> FALSE, wait |-> base_sleep * backoff_factor ^ (att - 1)]

\* The mutant starts the backoff one power too high
RetryOnFailureSteeper(max_retries, base_sleep, backoff_factor, att) ==
    IF att = max_retries THEN [reraise |-> TRUE, wait |-> 0]
    ELSE [reraise |-> FALSE, wait |-> base_sleep * backoff_factor ^ att]

\* The mutant never re-raises: it sleeps and tries again after every failure
RetryOnFailureNeverGivesUp(max_retries, base_sleep, backoff_factor, att) ==
    [reraise |-> FALSE, wait |-> base_sleep * backoff_factor ^ (att - 1)]

\* What retry_call does when attempt `att` raised a retryable exception:
\* re-raise on the last attempt, else sleep base_sleep * backoff ** (att - 1).
RetryOnFailure(max_retries, base_sleep, backoff_factor, att) ==
    IF att = max_retries THEN [reraise |-> TRUE, wait |-> 0]
    ELSE [reraise |-> FALSE, wait |-> base_sleep * backoff_factor ^ (att - 1)]

BACKOFF_DEFAULT == 2
GEOCODE_MAX_RETRIES == 4
GEOCODE_BASE_SLEEP == 15
LAYER_MAX_RETRIES == 3
GRAPH_BASE_SLEEP == 15
FEATURE_BASE_SLEEP == 10

---------------------------------------------------------------------------
(* Bounds and inputs of the modelled invocations *)

MaxRuns == 2

\* geopy results: two points that format to the same 6 decimals
PointA == [lat |-> 418902780, lon |-> 124922310]
PointB == [lat |-> 418902784, lon |-> 124922310]
Points == {PointA, PointB}

BaseArgs ==
    [list_themes |-> FALSE, city |-> S_Rome, country |-> S_Italy, theme |-> S_noir,
     distance |-> DEFAULT_DISTANCE, dist_form |-> "none", format |-> S_png,
     no_cache |-> FALSE, dpi_set |-> FALSE, dpi |-> 0, quality |-> "print",
     size |-> S_default, cwd_ok |-> TRUE]

\* The command lines tried: a valid request in two spellings and two sizes,
\* with and without --no-cache, run from the project root or from elsewhere;
\* --list-themes; a missing --city or --country; a malformed custom size.
RunArgs ==
    { [BaseArgs EXCEPT !.city = c, !.size = s, !.no_cache = n, !.cwd_ok = w] :
        c \in {S_Rome, S_rome}, s \in {S_default, S_mobile_portrait},
        n \in BOOLEAN, w \in BOOLEAN }
    \cup { [BaseArgs EXCEPT !.list_themes = TRUE],
           [BaseArgs EXCEPT !.city = <<>>],
           [BaseArgs EXCEPT !.country = <<>>],
           [BaseArgs EXCEPT !.size = S_custom_bad] }

\* Command lines that exercise the derived parameters: presets that scale the
\* default distance, distances given by the user below, at and above the
\* limits, --quality and --dpi.
DerivedArgs ==
    { [BaseArgs EXCEPT !.size = S_desktop_4k, !.quality = "high"],
      [BaseArgs EXCEPT !.size = S_mobile_portrait],
      [BaseArgs EXCEPT !.distance = 500, !.dist_form = "-d N", !.quality = "screen"],
      [BaseArgs EXCEPT !.distance = 1500, !.dist_form = "-d N",
                       !.size = S_mobile_portrait],
      [BaseArgs EXCEPT !.distance = 70000, !.dist_form = "--distance N",
                       !.dpi_set = TRUE, !.dpi = 72] }

NoEff == [dpi |-> 0, distance |-> 0, figsize |-> None, theme |-> <<>>]

\* What one network fetch of the three layers returns at time `now`
FreshData(now) == [G |-> now, water |-> now, parks |-> now]

Terminal == {"done", "done_cached", "listed", "error"}
Idle == pc \in Terminal \cup {"idle"}

---------------------------------------------------------------------------
(* main.py: main(), one action per step *)

Fail(cause) == pc' = "error" /\ exit' = 1 /\ did' = did \cup {cause}

Goto(next, events) == pc' = next /\ exit' = exit /\ did' = did \cup events

\* Lines 129-199: parse, early exits, derived parameters, theme
StartWith(argset, limit) ==
    /\ Idle
    /\ runs < limit
    /\ \E a \in argset :
        /\ args' = a
        /\ clock' = clock + 1
        /\ runs' = runs + 1
        /\ point' = None /\ output_path' = None /\ previous' = None /\ data' = None
        /\ attempt' = 1 /\ sleeps' = <<>>
        /\ IF a.list_themes
           THEN pc' = "listed" /\ exit' = 0 /\ did' = {"list_themes"} /\ eff' = NoEff
           ELSE IF a.city = <<>> \/ a.country = <<>>
           THEN pc' = "error" /\ exit' = 1 /\ did' = {"validation_error"} /\ eff' = NoEff
           ELSE IF ~ResolveSize(a).ok
           THEN pc' = "error" /\ exit' = 1 /\ did' = {"size_error"} /\ eff' = NoEff
           ELSE /\ pc' = "geocode" /\ exit' = -1 /\ did' = {}
                /\ eff' = [dpi |-> EffectiveDpi(a), distance |-> EffectiveDistance(a),
                           figsize |-> ResolveSize(a).figsize, theme |-> LoadTheme(a.theme)]
    /\ UNCHANGED <<world, harness>>

StartRun == StartWith(RunArgs, MaxRuns)

\* The mutant sends a "no location found" result through the retry loop
GeocodeRetriesNone ==
    /\ pc = "geocode"
    /\ \E outcome \in {"found", "none", "raise"} :
        CASE outcome = "found" ->
               /\ \E pt \in Points : point' = pt
               /\ output_path' = GenerateOutputFilename(args.city, args.theme, args.format, clock)
               /\ Goto("check_registry", {"geocode"})
               /\ attempt' = 1 /\ sleeps' = <<>>
          [] outcome \in {"none", "raise"} ->
               LET r == RetryOnFailure(GEOCODE_MAX_RETRIES, GEOCODE_BASE_SLEEP,
                                       BACKOFF_DEFAULT, attempt)
                   cause == IF outcome = "none" THEN "geocode_none" ELSE "geocode_exhausted"
               IN  /\ IF r.reraise
                      THEN Fail(cause) /\ UNCHANGED <<attempt, sleeps>>
                      ELSE /\ Goto("geocode", IF outcome = "none" THEN {"geocode_none"} ELSE {})
                           /\ attempt' = attempt + 1
                           /\ sleeps' = Append(sleeps, r.wait)
                   /\ UNCHANGED <<point, output_path>>
    /\ UNCHANGED <<world, clock, runs, args, eff, previous, data, harness>>

\* Lines 203-207: get_coordinates, one attempt of its retry_call at a time;
\* a None result raises ValueError outside the retry loop
Geocode ==
    /\ pc = "geocode"
    /\ \E outcome \in {"found", "none", "raise"} :
        CASE outcome = "found" ->
               /\ \E pt \in Points : point' = pt
               /\ output_path' = GenerateOutputFilename(args.city, args.theme, args.format, clock)
               /\ Goto("check_registry", {"geocode"})
               /\ attempt' = 1 /\ sleeps' = <<>>
          [] outcome = "none" ->
               /\ Fail("geocode_none")
               /\ UNCHANGED <<point, output_path, attempt, sleeps>>
          [] outcome = "raise" ->
               LET r == RetryOnFailure(GEOCODE_MAX_RETRIES, GEOCODE_BASE_SLEEP,
                                       BACKOFF_DEFAULT, attempt)
               IN  /\ IF r.reraise
                      THEN Fail("geocode_exhausted") /\ UNCHANGED <<attempt, sleeps>>
                      ELSE /\ Goto("geocode", {})
                           /\ attempt' = attempt + 1
                           /\ sleeps' = Append(sleeps, r.wait)
                   /\ UNCHANGED <<point, output_path>>
    /\ UNCHANGED <<world, clock, runs, args, eff, previous, data, harness>>

\* The mutant skips on the record alone, without looking for the file
ShouldSkipOnRecordAlone(prev, fs) == prev # None

\* Lines 220-222: skip when a record was found and its file still exists
ShouldSkip(prev, fs) == prev # None /\ prev.path \in fs

\* Lines 210-235: registry lookup and the idempotent skip; the report of the
\* skip prints existing_path.relative_to(Path.cwd()), which raises ValueError
\* when the process does not run in ROOT_DIR or above it
CheckRegistry ==
    /\ pc = "check_registry"
    /\ LET r == CheckPreviousOutput(index, Params(args, eff))
           seen == {"registry_lookup"}
                   \cup (IF r.value # None THEN {"record_found"} ELSE {})
                   \cup (IF r.value # None /\ r.value.path \notin files
                         THEN {"file_missing"} ELSE {})
       IN
       IF r.raised
       THEN Fail("lookup_raised") /\ previous' = previous
       ELSE /\ previous' = r.value
            /\ IF ShouldSkip(r.value, files)
               THEN IF args.cwd_ok
                    THEN pc' = "done_cached" /\ exit' = 0
                         /\ did' = did \cup seen \cup {"skip"}
                    ELSE pc' = "error" /\ exit' = 1
                         /\ did' = did \cup seen \cup {"skip", "relative_to_raised"}
               ELSE Goto(IF args.no_cache THEN "invalidate" ELSE "check_cache", seen)
    /\ UNCHANGED <<world, clock, runs, args, eff, point, output_path, data,
                   attempt, sleeps, harness>>

\* Lines 239-244: --no-cache deletes the key's cache file
InvalidateStep ==
    /\ pc = "invalidate"
    /\ \E unlinkOk \in BOOLEAN :
         LET r == Invalidate(cache, point.lat, point.lon, eff.distance, unlinkOk) IN
         /\ cache' = r.cache
         /\ IF r.raised THEN Fail("unlink_raised")
            ELSE Goto("check_cache", {"cache_invalidate"} \cup
                      (IF r.cache # cache THEN {"cache_deleted"} ELSE {}))
    /\ UNCHANGED <<index, files, clock, runs, local, harness>>

\* Lines 246-252: get_cached_data and the choice of the source
CheckCache ==
    /\ pc = "check_cache"
    /\ LET r == GetCachedData(cache, point.lat, point.lon, eff.distance) IN
       /\ cache' = r.cache
       /\ IF r.raised THEN Fail("cache_get_raised") /\ data' = data
          ELSE IF r.value # None
          THEN data' = r.value /\ Goto("render", {"cache_read", "cache_hit"})
          ELSE data' = data /\ Goto("fetch_get", {"cache_read"})
    /\ UNCHANGED <<index, files, clock, runs, args, eff, point, output_path,
                   previous, attempt, sleeps, harness>>

\* map_data.py lines 103-109: fetch_map_data looks into the cache itself
FetchGet ==
    /\ pc = "fetch_get"
    /\ LET r == GetCachedData(cache, point.lat, point.lon, eff.distance) IN
       /\ cache' = r.cache
       /\ IF r.raised THEN Fail("cache_get_raised") /\ data' = data
          ELSE IF r.value # None
          THEN data' = r.value /\ Goto("save", {"cache_hit"})
          ELSE data' = data /\ Goto("fetch_graph", {"fetch"})
    /\ attempt' = 1 /\ sleeps' = <<>>
    /\ UNCHANGED <<index, files, clock, runs, args, eff, point, output_path,
                   previous, harness>>

\* The mutant carries the attempt count over from one layer to the next
LayerStepSharedCount(at, base_sleep, next, event) ==
    /\ pc = at
    /\ \E ok \in BOOLEAN :
        IF ok
        THEN /\ Goto(next, {event})
             /\ UNCHANGED <<attempt, sleeps>>
             /\ data' = IF next = "fetch_save" THEN FreshData(clock) ELSE data
        ELSE LET r == RetryOnFailure(LAYER_MAX_RETRIES, base_sleep,
                                     BACKOFF_DEFAULT, attempt)
             IN  /\ IF r.reraise
                    THEN Fail("fetch_exhausted") /\ UNCHANGED <<attempt, sleeps>>
                    ELSE /\ Goto(at, {})
                         /\ attempt' = attempt + 1
                         /\ sleeps' = Append(sleeps, r.wait)
                 /\ data' = data
    /\ UNCHANGED <<world, clock, runs, args, eff, point, output_path, previous,
                   harness>>

\* One attempt of one layer's retry_call (map_data.py lines 117-176)
LayerStep(at, base_sleep, next, event) ==
    /\ pc = at
    /\ \E ok \in BOOLEAN :
        IF ok
        THEN /\ Goto(next, {event})
             /\ attempt' = 1 /\ sleeps' = <<>>
             /\ data' = IF next = "fetch_save" THEN FreshData(clock) ELSE data
        ELSE LET r == RetryOnFailure(LAYER_MAX_RETRIES, base_sleep,
                                     BACKOFF_DEFAULT, attempt)
             IN  /\ IF r.reraise
                    THEN Fail("fetch_exhausted") /\ UNCHANGED <<attempt, sleeps>>
                    ELSE /\ Goto(at, {})
                         /\ attempt' = attempt + 1
                         /\ sleeps' = Append(sleeps, r.wait)
                 /\ data' = data
    /\ UNCHANGED <<world, clock, runs, args, eff, point, output_path, previous,
                   harness>>

FetchGraph == LayerStep("fetch_graph", GRAPH_BASE_SLEEP, "fetch_water", "graph")
FetchWater == LayerStep("fetch_water", FEATURE_BASE_SLEEP, "fetch_parks", "water")
FetchParks == LayerStep("fetch_parks", FEATURE_BASE_SLEEP, "fetch_save", "parks")

\* A call of save_to_cache from position `at`, continuing at `next`
SaveStep(at, next) ==
    /\ pc = at
    /\ \E io \in IoOutcomes :
         LET r == SaveToCache(cache, point.lat, point.lon, eff.distance, data, io) IN
         /\ cache' = r.cache
         /\ IF r.raised
            THEN pc' = "error" /\ exit' = 1
                 /\ did' = did \cup {"cache_write", "save_failed", "cache_put_raised"}
            ELSE Goto(next, {"cache_write"} \cup
                            (IF io = "ok" THEN {} ELSE {"save_failed"}))
    /\ UNCHANGED <<index, files, clock, runs, local, harness>>

\* map_data.py lines 181-182: fetch_map_data stores its result
FetchSave == SaveStep("fetch_save", "save")

\* main.py line 255: main stores the result again
MainSave == SaveStep("save", "render")

\* The mutant tries render_poster again when it raised
RenderRetried ==
    /\ pc = "render"
    /\ \E ok \in BOOLEAN, partial \in BOOLEAN :
        /\ files' = IF ok \/ partial THEN files \cup {output_path.rel} ELSE files
        /\ IF ok THEN Goto("record", {"render"}) ELSE Goto("render", {"render_raised"})
    /\ UNCHANGED <<index, cache, clock, runs, local, harness>>

\* The mutant goes on to record_new_output although render_poster raised
RenderUnchecked ==
    /\ pc = "render"
    /\ \E ok \in BOOLEAN, partial \in BOOLEAN :
        /\ files' = IF ok \/ partial THEN files \cup {output_path.rel} ELSE files
        /\ Goto("record", IF ok THEN {"render"} ELSE {"render_raised"})
    /\ UNCHANGED <<index, cache, clock, runs, local, harness>>

\* Lines 259-271: render_poster; savefig may leave a partial file when it raises
Render ==
    /\ pc = "render"
    /\ \E ok \in BOOLEAN, partial \in BOOLEAN :
        IF ok
        THEN /\ partial
             /\ files' = files \cup {output_path.rel}
             /\ Goto("record", {"render"})
        ELSE /\ files' = IF partial THEN files \cup {output_path.rel} ELSE files
             /\ Fail("render_raised")
    /\ UNCHANGED <<index, cache, clock, runs, local, harness>>

\* Lines 273-282: record_new_output
Record ==
    /\ pc = "record"
    /\ \E io \in IoOutcomes :
         LET r == RecordNewOutput(index, Params(args, eff), output_path, clock, io) IN
         /\ index' = r.index
         /\ IF r.raised THEN Fail("record_raised")
            ELSE Goto("final", {"registry_write"} \cup
                               (IF io = "ok" THEN {"registry_saved"} ELSE {}))
    /\ UNCHANGED <<cache, files, clock, runs, local, harness>>

\* Lines 285-298: the closing report; relative_to(Path.cwd()) raises
\* ValueError when the process does not run in ROOT_DIR or above it
Final ==
    /\ pc = "final"
    /\ IF args.cwd_ok THEN pc' = "done" /\ exit' = 0 /\ did' = did
       ELSE Fail("relative_to_raised")
    /\ UNCHANGED <<world, clock, runs, local, harness>>

---------------------------------------------------------------------------
(* What happens to the files between invocations: the process has exited *)

Exited ==
    /\ pc' = "idle"
    /\ args' = BaseArgs
    /\ eff' = NoEff
    /\ point' = None /\ output_path' = None /\ previous' = None /\ data' = None
    /\ attempt' = 1 /\ sleeps' = <<>>
    /\ exit' = -1
    /\ did' = {}

\* An output file is deleted by hand
DeleteOutput ==
    /\ Idle
    /\ \E f \in files : files' = files \ {f}
    /\ Exited
    /\ UNCHANGED <<index, cache, clock, runs, harness>>

\* The registry file is deleted or replaced
TamperIndex ==
    /\ Idle
    /\ \E ix \in {IndexMissing, IndexGarbage, IndexList, IndexScalar} :
         index' = ix /\ index # ix
    /\ Exited
    /\ UNCHANGED <<cache, files, clock, runs, harness>>

\* A cache file is truncated or overwritten with garbage
CorruptCache ==
    /\ Idle
    /\ \E k \in DOMAIN cache :
         cache[k].ok /\ cache' = [cache EXCEPT ![k] = CorruptFile]
    /\ Exited
    /\ UNCHANGED <<index, files, clock, runs, harness>>

NoCall ==
    [op |-> "none", arg |-> None, path |-> None, io |-> "ok", raised |-> FALSE,
     ret |-> None, pre |-> "none", changed |-> FALSE, frame |-> TRUE]

\* No invocation of main() is running
NoRun ==
    /\ pc = "idle"
    /\ args = BaseArgs
    /\ eff = NoEff
    /\ point = None /\ output_path = None /\ previous = None /\ data = None
    /\ attempt = 1 /\ sleeps = <<>>
    /\ exit = -1
    /\ did = {}

NoCalls == call = NoCall /\ before = NoCall /\ shadow = <<>>

\* A fresh checkout: no registry, an empty cache directory, no posters
Init ==
    /\ index = IndexMissing
    /\ cache = <<>>
    /\ files = {}
    /\ clock = 0
    /\ runs = 0
    /\ NoRun
    /\ NoCalls

Next ==
    \/ StartRun
    \/ Geocode
    \/ CheckRegistry
    \/ InvalidateStep
    \/ CheckCache
    \/ FetchGet
    \/ FetchGraph
    \/ FetchWater
    \/ FetchParks
    \/ FetchSave
    \/ MainSave
    \/ Render
    \/ Record
    \/ Final
    \/ DeleteOutput
    \/ TamperIndex
    \/ CorruptCache

Spec == Init /\ [][Next]_vars

---------------------------------------------------------------------------
(* main() run on the command lines of DerivedArgs *)

MaxDerivedRuns == 2

StartDerived == StartWith(DerivedArgs, MaxDerivedRuns)

NextDerived ==
    \/ StartDerived
    \/ Geocode
    \/ CheckRegistry
    \/ CheckCache
    \/ FetchGet
    \/ FetchGraph
    \/ FetchWater
    \/ FetchParks
    \/ FetchSave
    \/ MainSave
    \/ Render
    \/ Record
    \/ Final
    \/ DeleteOutput

SpecDerived == Init /\ [][NextDerived]_vars

---------------------------------------------------------------------------
(* The output registry on its own: record and lookup called directly, with  *)
(* any prior content of the registry file                                  *)

MaxCalls == 3

RegParams ==
    { [city |-> c, country |-> S_Italy, theme |-> S_noir, distance |-> 6000,
       size |-> S_default, dpi |-> 300, format |-> S_png] :
        c \in {S_Rome, S_rome, S_rome_padded} }

\* Output paths at time `now`: a timestamped one under ROOT_DIR, and one outside it
RegPaths(p, now) ==
    { GenerateOutputFilename(p.city, p.theme, p.format, now),
      [root |-> FALSE, rel |-> <<"/", "t", "m", "p", "/", "x">>] }

IndexKind(ix, p) ==
    IF ix.kind = "map" /\ MakeOutputKey(p) \in DOMAIN ix.entries THEN "present"
    ELSE ix.kind

\* Every other key's record is the same in ix and in jx
OtherRecordsKept(ix, jx, key) ==
    \A k \in DOMAIN ix.entries \ {key} :
        jx.kind = "map" /\ k \in DOMAIN jx.entries /\ jx.entries[k] = ix.entries[k]

RegRecord ==
    /\ runs < MaxCalls
    /\ \E p \in RegParams, io \in IoOutcomes :
       \E path \in RegPaths(p, clock + 1) :
         LET r == RecordNewOutput(index, p, path, clock + 1, io) IN
         /\ index' = r.index
         /\ call' = [op |-> "record", arg |-> p, path |-> path, io |-> io,
                     raised |-> r.raised, ret |-> None, pre |-> IndexKind(index, p),
                     changed |-> r.index # index,
                     frame |-> OtherRecordsKept(index, r.index, MakeOutputKey(p))]
    /\ before' = call
    /\ clock' = clock + 1
    /\ runs' = runs + 1
    /\ UNCHANGED <<cache, files, pc, exit, did, local, shadow>>

RegLookup ==
    /\ runs < MaxCalls
    /\ \E p \in RegParams :
         LET r == CheckPreviousOutput(index, p) IN
         call' = [op |-> "lookup", arg |-> p, path |-> None, io |-> "ok",
                  raised |-> r.raised, ret |-> r.value, pre |-> IndexKind(index, p),
                  changed |-> FALSE, frame |-> TRUE]
    /\ before' = call
    /\ runs' = runs + 1
    /\ UNCHANGED <<world, clock, pc, exit, did, local, shadow>>

\* The registry file is deleted or replaced between two calls
RegTamper ==
    /\ runs < MaxCalls
    /\ \E ix \in {IndexMissing, IndexGarbage, IndexList, IndexScalar} :
         /\ index # ix
         /\ index' = ix
         /\ call' = [NoCall EXCEPT !.op = "tamper", !.pre = index.kind, !.changed = TRUE]
    /\ before' = call
    /\ runs' = runs + 1
    /\ UNCHANGED <<cache, files, clock, pc, exit, did, local, shadow>>

InitRegistry ==
    /\ index \in {IndexMissing, IndexGarbage, IndexList, IndexScalar, IndexMap(NoEntries)}
    /\ cache = <<>>
    /\ files = {}
    /\ clock = 0
    /\ runs = 0
    /\ NoRun
    /\ NoCalls

NextRegistry ==
    \/ RegRecord
    \/ RegLookup
    \/ RegTamper

SpecRegistry == InitRegistry /\ [][NextRegistry]_vars

---------------------------------------------------------------------------
(* The map-data cache on its own: get, put and the --no-cache deletion     *)
(* called directly                                                         *)

\* (lat, lon, distance) queries: two that format to the same key, one with
\* another radius, one just south of the equator ("-0.000000")
CacheQueries ==
    { [lat |-> PointA.lat, lon |-> PointA.lon, distance |-> 6000],
      [lat |-> PointB.lat, lon |-> PointB.lon, distance |-> 6000],
      [lat |-> PointA.lat, lon |-> PointA.lon, distance |-> MIN_DISTANCE_METERS],
      [lat |-> -3, lon |-> 3, distance |-> 6000] }

Payloads == {FreshData(1), FreshData(2)}

QueryKey(q) == MakeCacheKey(q.lat, q.lon, q.distance)

FileKind(c, key) ==
    IF key \notin DOMAIN c THEN "missing"
    ELSE IF c[key].ok THEN "valid" ELSE "corrupt"

\* Every other key's file is the same in c and in d
OtherFilesKept(c, d, key) ==
    /\ DOMAIN c \ {key} = DOMAIN d \ {key}
    /\ \A k \in DOMAIN c \ {key} : d[k] = c[k]

Forget(key) == [k \in DOMAIN shadow \ {key} |-> shadow[k]]

CachePut ==
    /\ runs < MaxCalls
    /\ \E q \in CacheQueries, d \in Payloads, io \in IoOutcomes :
         LET r == SaveToCache(cache, q.lat, q.lon, q.distance, d, io) IN
         /\ cache' = r.cache
         /\ call' = [op |-> "put", arg |-> q, path |-> d, io |-> io,
                     raised |-> r.raised, ret |-> None,
                     pre |-> FileKind(cache, QueryKey(q)), changed |-> r.cache # cache,
                     frame |-> OtherFilesKept(cache, r.cache, QueryKey(q))]
         /\ shadow' = IF io = "ok" /\ ~r.raised
                      THEN (QueryKey(q) :> d) @@ shadow
                      ELSE Forget(QueryKey(q))
    /\ before' = call
    /\ runs' = runs + 1
    /\ UNCHANGED <<index, files, clock, pc, exit, did, local>>

CacheGet ==
    /\ runs < MaxCalls
    /\ \E q \in CacheQueries :
         LET r == GetCachedData(cache, q.lat, q.lon, q.distance) IN
         /\ cache' = r.cache
         /\ call' = [op |-> "get", arg |-> q, path |-> None, io |-> "ok",
                     raised |-> r.raised, ret |-> r.value,
                     pre |-> FileKind(cache, QueryKey(q)), changed |-> r.cache # cache,
                     frame |-> OtherFilesKept(cache, r.cache, QueryKey(q))]
    /\ before' = call
    /\ runs' = runs + 1
    /\ UNCHANGED <<index, files, clock, pc, exit, did, local, shadow>>

CacheInvalidate ==
    /\ runs < MaxCalls
    /\ \E q \in CacheQueries, unlinkOk \in BOOLEAN :
         LET r == Invalidate(cache, q.lat, q.lon, q.distance, unlinkOk) IN
         /\ cache' = r.cache
         /\ call' = [op |-> "invalidate", arg |-> q, path |-> None, io |-> "ok",
                     raised |-> r.raised, ret |-> None,
                     pre |-> FileKind(cache, QueryKey(q)), changed |-> r.cache # cache,
                     frame |-> OtherFilesKept(cache, r.cache, QueryKey(q))]
         /\ shadow' = Forget(QueryKey(q))
    /\ before' = call
    /\ runs' = runs + 1
    /\ UNCHANGED <<index, files, clock, pc, exit, did, local>>

\* A cache file is truncated or overwritten with garbage between two calls
CacheCorrupt ==
    /\ runs < MaxCalls
    /\ \E k \in DOMAIN cache :
         /\ cache[k].ok
         /\ cache' = [cache EXCEPT ![k] = CorruptFile]
         /\ call' = [NoCall EXCEPT !.op = "corrupt", !.pre = "valid", !.changed = TRUE]
         /\ shadow' = Forget(k)
    /\ before' = call
    /\ runs' = runs + 1
    /\ UNCHANGED <<index, files, clock, pc, exit, did, local>>

InitCache ==
    /\ index = IndexMissing
    /\ cache = <<>>
    /\ files = {}
    /\ clock = 0
    /\ runs = 0
    /\ NoRun
    /\ NoCalls

NextCache ==
    \/ CachePut
    \/ CacheGet
    \/ CacheInvalidate
    \/ CacheCorrupt

SpecCache == InitCache /\ [][NextCache]_vars

---------------------------------------------------------------------------
(* Properties *)

RunKey == MakeOutputKey(Params(args, eff))

HasRecord(ix, key) == ix.kind = "map" /\ key \in DOMAIN ix.entries

WorkEvents ==
    {"cache_invalidate", "cache_read", "cache_write", "fetch", "render",
     "registry_write"}

\* C1: a run whose registry lookup returns a record whose file exists ends in
\* DONE_CACHED with exit status 0, and has done no map-cache read, write or
\* invalidation, no fetch, no render and no registry write.
C1_IdempotentSkipEndsCached ==
    ("record_found" \in did /\ "file_missing" \notin did /\ pc \in Terminal)
        => (pc = "done_cached" /\ exit = 0 /\ did \cap WorkEvents = {})

\* C2: a run that finds a record whose output file is gone goes on as a run
\* that found no record: no skip, on to the map cache, render before record,
\* and the record it persists for the key is the new one.
C2_StaleRecordIsFullMiss ==
    ({"record_found", "file_missing"} \subseteq did) =>
        /\ "skip" \notin did
        /\ pc # "done_cached"
        /\ \/ pc \in {"invalidate", "check_cache"}
           \/ "cache_read" \in did
           \/ "unlink_raised" \in did
        /\ (pc \in {"record", "final", "done"} => "render" \in did)
        /\ (pc \in {"final", "done"} => "registry_write" \in did)
        /\ ("registry_saved" \in did =>
              /\ HasRecord(index, RunKey)
              /\ index.entries[RunKey] = NewRecord(Params(args, eff), output_path, clock))

C2_Witness ==
    /\ {"record_found", "file_missing", "render", "registry_saved"} \subseteq did
    /\ pc = "done"
    /\ index.entries[RunKey].path = output_path.rel
    /\ previous.path # output_path.rel

\* C5 as stated: a request whose key already has a record never reaches
\* record_new_output.
C5_SameKeyNeverReachesRecord ==
    pc = "record" => ~HasRecord(index, RunKey)

\* C5 as amended: while the output file a record references exists, no step of
\* a run for the same key changes the registry or reaches record_new_output.
C5_RecordKeptWhileFileExists ==
    [][(~Idle /\ HasRecord(index, RunKey) /\ index.entries[RunKey].path \in files)
          => (index' = index /\ pc' # "record")]_vars

C5_Witness ==
    /\ "skip" \in did
    /\ pc = "done_cached"
    /\ HasRecord(index, RunKey)
    /\ index.entries[RunKey].generated_at < clock

C10_SaveFailureNotFatal ==
    "save_failed" \in did =>
        /\ "cache_put_raised" \notin did
        /\ pc \in {"save", "render", "record", "final", "done", "error"}
        /\ data = FreshData(clock)
        /\ (pc = "error" =>
              did \cap {"render_raised", "record_raised", "relative_to_raised"} # {})

C10_Witness ==
    /\ "save_failed" \in did
    /\ pc = "done"
    /\ exit = 0
    /\ "registry_saved" \in did
    /\ HasRecord(index, RunKey)

\* The words of C4: leading and trailing whitespace removed
RECURSIVE Strip(_)
Strip(s) ==
    IF Len(s) = 0 THEN s
    ELSE IF IsWhite(s[1]) THEN Strip(Tail(s))
    ELSE IF IsWhite(s[Len(s)]) THEN Strip(SubSeq(s, 1, Len(s) - 1))
    ELSE s

\* Two parameter tuples that differ only in letter case or in leading and
\* trailing whitespace of the text fields
NormEqual(p, q) ==
    /\ Strip(Lower(p.city)) = Strip(Lower(q.city))
    /\ Strip(Lower(p.country)) = Strip(Lower(q.country))
    /\ Strip(Lower(p.theme)) = Strip(Lower(q.theme))
    /\ Strip(Lower(p.size)) = Strip(Lower(q.size))
    /\ Strip(Lower(p.format)) = Strip(Lower(q.format))
    /\ p.distance = q.distance
    /\ p.dpi = q.dpi

\* C3: a lookup right after a record with the same parameters returns a
\* record with the recorded path, whatever the registry file held before
\* (here even granting a path under ROOT_DIR and a persist without I/O error).
C3_LookupAfterRecord ==
    (/\ call.op = "lookup" /\ before.op = "record"
     /\ call.arg = before.arg
     /\ before.path.root /\ before.io = "ok")
        => (/\ ~before.raised /\ ~call.raised
            /\ call.ret # None
            /\ call.ret.path = before.path.rel)

\* C4: parameter tuples that differ only in case or in leading/trailing
\* whitespace get the same key, so a lookup with one finds the record stored
\* under the other.
C4_NormalizedEqualSameKey ==
    (/\ call.op = "lookup" /\ before.op = "record"
     /\ NormEqual(call.arg, before.arg))
        => MakeOutputKey(call.arg) = MakeOutputKey(before.arg)

\* C7: after a successful put, every get of that key returns the stored
\* payload, until the key is invalidated, put again or its file is corrupted.
C7_RoundTrip ==
    (call.op = "get" /\ QueryKey(call.arg) \in DOMAIN shadow)
        => (~call.raised /\ call.ret = shadow[QueryKey(call.arg)])

C7_Witness ==
    /\ call.op = "get" /\ before.op = "put"
    /\ QueryKey(before.arg) # QueryKey(call.arg)
    /\ QueryKey(call.arg) \in DOMAIN shadow
    /\ call.ret = shadow[QueryKey(call.arg)]
    /\ call.ret # before.path

\* C8: get never raises, returns absent for a missing and for an unreadable
\* file, and leaves the cache directory as it was.
C8_GetNeverRaises ==
    call.op = "get" =>
        /\ ~call.raised
        /\ ~call.changed
        /\ (call.pre \in {"missing", "corrupt"} => call.ret = None)

C8_Witness ==
    call.op = "get" /\ call.pre = "corrupt" /\ call.ret = None /\ ~call.changed

\* C9: a get after the --no-cache deletion of the same key returns absent,
\* whatever the file was before; deleting a key that has no file raises
\* nothing and changes nothing; no deletion touches another key's file.
C9_InvalidateThenGetAbsent ==
    /\ (/\ call.op = "get" /\ before.op = "invalidate" /\ ~before.raised
        /\ QueryKey(call.arg) = QueryKey(before.arg))
          => (call.ret = None /\ ~call.raised)
    /\ (call.op = "invalidate" /\ call.pre = "missing")
          => (~call.raised /\ ~call.changed)
    /\ call.op = "invalidate" => call.frame

C9_Witness ==
    /\ call.op = "get" /\ before.op = "invalidate" /\ ~before.raised
    /\ before.pre = "valid"
    /\ QueryKey(call.arg) = QueryKey(before.arg)
    /\ call.arg # before.arg
    /\ call.ret = None


\* C11: no failure of a map-cache operation (get, put, or the --no-cache
\* deletion) ends the run in the error exit.
C11_CacheFailureNeverFatal ==
    pc = "error" =>
        did \cap {"cache_get_raised", "cache_put_raised", "unlink_raised"} = {}


\* C12: with the registry file deleted or holding invalid JSON, a lookup
\* returns absent without raising; a record whose write goes through does not
\* raise and leaves the file a valid mapping holding the new record; and the
\* lookup after it, with the recorded parameters, returns that record.
C12_RegistryRecovers ==
    /\ (call.op = "lookup" /\ call.pre \in {"missing", "garbage"})
          => (~call.raised /\ call.ret = None)
    /\ (/\ call.op = "record" /\ call.pre \in {"missing", "garbage"}
        /\ call.path.root /\ call.io = "ok")
          => (/\ ~call.raised
              /\ index.kind = "map"
              /\ DOMAIN index.entries = {MakeOutputKey(call.arg)}
              /\ index.entries[MakeOutputKey(call.arg)]
                    = NewRecord(call.arg, call.path, clock))
    /\ (/\ call.op = "lookup" /\ before.op = "record"
        /\ before.pre \in {"missing", "garbage"}
        /\ before.path.root /\ before.io = "ok"
        /\ call.arg = before.arg)
          => (/\ ~call.raised
              /\ call.ret = NewRecord(before.arg, before.path, clock))

C12_Witness ==
    /\ call.op = "lookup" /\ before.op = "record"
    /\ before.pre = "garbage"
    /\ call.arg = before.arg
    /\ call.ret # None
    /\ call.ret.path = before.path.rel
    /\ index.kind = "map"


\* Events of the map cache, of the layer fetches and of render
MapWorkEvents ==
    {"cache_invalidate", "cache_deleted", "unlink_raised", "cache_read",
     "cache_hit", "cache_get_raised", "cache_write", "save_failed",
     "cache_put_raised", "fetch", "graph", "water", "parks", "fetch_exhausted",
     "render", "render_raised"}

RecordEvents == {"registry_write", "registry_saved", "record_raised"}

\* The positions of a run from the map cache onwards
AfterLookup ==
    {"invalidate", "check_cache", "fetch_get", "fetch_graph", "fetch_water",
     "fetch_parks", "fetch_save", "save", "render", "record", "final", "done"}

\* C13: in every run the registry lookup comes before any map-cache access,
\* fetch or render; a map-cache put comes only after the three layers were
\* fetched; render comes only once map data is there (a cache hit or a
\* complete fetch); record_new_output comes only after render returned
\* without raising, and is not called again in the run once it was called.
C13_OrchestratorOrder ==
    /\ [](/\ (did \cap (MapWorkEvents \cup RecordEvents) # {} \/ pc \in AfterLookup)
                => "registry_lookup" \in did
          /\ (pc \in {"fetch_save", "save"} \/ "cache_write" \in did)
                => {"fetch", "graph", "water", "parks"} \subseteq did
          /\ (pc = "render" \/ did \cap {"render", "render_raised"} # {})
                => (/\ data # None
                    /\ "cache_hit" \in did \/ {"graph", "water", "parks"} \subseteq did)
          /\ (pc = "record" \/ did \cap RecordEvents # {})
                => ("render" \in did /\ "render_raised" \notin did))
    /\ [][did \cap RecordEvents # {} => pc' # "record"]_vars

C13_Witness ==
    /\ pc = "done"
    /\ {"registry_lookup", "cache_read", "fetch", "graph", "water", "parks",
        "cache_write", "render", "registry_write"} \subseteq did
    /\ "cache_hit" \notin did


\* The cache file of the running request
RunCacheKey == MakeCacheKey(point.lat, point.lon, eff.distance)

RunCacheValid == RunCacheKey \in DOMAIN cache /\ cache[RunCacheKey].ok

\* C14: after the registry check missed, a readable cache file takes the run
\* straight to render with the stored payload, with no layer fetch and no
\* cache write in that run; otherwise the run goes to one fetch of the three
\* layers, never entered again once the layers are there, and the result is
\* in the cache under the same key when render starts (given that the writes
\* went through).
C14_HitRendersMissFetches ==
    /\ [](/\ ("cache_hit" \in did /\ pc \in AfterLookup) =>
                /\ did \cap {"fetch", "graph", "water", "parks", "cache_write"} = {}
                /\ RunCacheValid /\ data = cache[RunCacheKey].data
          /\ ("cache_read" \in did /\ "cache_hit" \notin did
                /\ pc \in {"render", "record", "final", "done"}) =>
                /\ {"fetch", "graph", "water", "parks", "cache_write"} \subseteq did
                /\ data = FreshData(clock)
                /\ "save_failed" \notin did =>
                      (RunCacheValid /\ cache[RunCacheKey].data = data))
    /\ [][/\ (pc = "check_cache" /\ RunCacheValid) =>
                (pc' = "render" /\ data' = cache[RunCacheKey].data /\ cache' = cache)
          /\ (pc = "check_cache" /\ ~RunCacheValid) => pc' = "fetch_get"
          /\ (pc = "fetch_get" /\ ~RunCacheValid) => pc' = "fetch_graph"
          /\ ("parks" \in did) =>
                pc' \notin {"fetch_get", "fetch_graph", "fetch_water", "fetch_parks"}
         ]_vars

\* A hit on a payload stored by an earlier run
C14_Witness ==
    /\ pc = "render"
    /\ "cache_hit" \in did
    /\ "fetch" \notin did
    /\ data # FreshData(clock)
    /\ data = cache[RunCacheKey].data

\* A miss in a second run: fetched, stored, and about to render
C14_WitnessMiss ==
    /\ pc = "render"
    /\ {"cache_read", "fetch", "parks", "cache_write"} \subseteq did
    /\ "save_failed" \notin did
    /\ cache[RunCacheKey] = GoodFile(FreshData(clock))
    /\ runs = 2


\* C15: render_poster is called at most once in a run: once it returned or
\* raised, the render position is never entered again.  When it raised, the
\* run is in the error exit with status 1 and record_new_output was not
\* called; the registry file changes in a run only in record_new_output, so
\* it is as it was before the run.
C15_RenderOnceFailureFatal ==
    /\ []("render_raised" \in did =>
             (pc = "error" /\ exit = 1 /\ did \cap RecordEvents = {}))
    /\ [][/\ did \cap {"render", "render_raised"} # {} => pc' # "render"
          /\ (index' # index /\ ~Idle) => pc = "record"
         ]_vars

\* A failed render in a second run, the first run's record still in place
C15_Witness ==
    /\ "render_raised" \in did
    /\ pc = "error" /\ exit = 1
    /\ index.kind = "map" /\ DOMAIN index.entries # {}
    /\ \A k \in DOMAIN index.entries : index.entries[k].generated_at < clock


---------------------------------------------------------------------------
(* src/utils.py: retry_call on its own, one loop iteration per step        *)

MaxAttempts == 4
MaxRetryCalls == 2

\* Exception types an operation may raise, and `exceptions` tuples a caller
\* may pass; "Exception" in the tuple catches every type
ExcTypes == {"GeocoderTimedOut", "ValueError"}
ExceptionTuples == {{"Exception"}, {"GeocoderTimedOut"}}

\* The mutant catches whatever was raised
CatchesAnything(exceptions, type) == TRUE

\* `except exceptions as e` (line 56)
Catches(exceptions, type) == "Exception" \in exceptions \/ type \in exceptions

RetryPolicies ==
    [max_retries : 0..MaxAttempts, base_sleep : {10, 15}, backoff_factor : {1, 2},
     exceptions : ExceptionTuples]

\* No exception caught so far: last_exc = None (line 51)
NoExc == [by |-> 0, type |-> "none"]

\* Line 65, `raise last_exc`: raising None is a TypeError
RaiseLast(last_exc) ==
    IF last_exc = NoExc THEN [by |-> 0, type |-> "TypeError"] ELSE last_exc

\* A call of retry_call begins (lines 51-53)
RetryStart ==
    /\ pc \in {"idle", "returned", "raised"}
    /\ runs < MaxRetryCalls
    /\ \E p \in RetryPolicies :
         call' = [op |-> "retry_call", policy |-> p, outcomes |-> <<>>,
                  last_exc |-> NoExc, result |-> None]
    /\ pc' = "retry_loop"
    /\ attempt' = 1
    /\ sleeps' = <<>>
    /\ runs' = runs + 1
    /\ UNCHANGED <<world, clock, exit, did, args, eff, point, output_path,
                   previous, data, before, shadow>>

\* The range is used up (line 53 ends the loop, line 65 raises)
RetryFallThrough ==
    /\ pc = "retry_loop"
    /\ attempt > call.policy.max_retries
    /\ call' = [call EXCEPT !.result = [kind |-> "raise", exc |-> RaiseLast(call.last_exc)]]
    /\ pc' = "raised"
    /\ UNCHANGED <<world, clock, runs, exit, did, local, before, shadow>>

\* One iteration of the loop (lines 53-62): func() returns or raises
RetryAttempt ==
    /\ pc = "retry_loop"
    /\ attempt <= call.policy.max_retries
    /\ \E outcome \in {"ok"} \cup ExcTypes :
        LET p == call.policy
            made == Append(call.outcomes, outcome)
            e == [by |-> attempt, type |-> outcome]
            r == RetryOnFailure(p.max_retries, p.base_sleep, p.backoff_factor, attempt)
        IN  IF outcome = "ok"
            THEN /\ call' = [call EXCEPT !.outcomes = made,
                                         !.result = [kind |-> "return", value |-> attempt]]
                 /\ pc' = "returned"
                 /\ UNCHANGED <<attempt, sleeps>>
            ELSE IF ~Catches(p.exceptions, outcome) \/ r.reraise
            THEN /\ call' = [call EXCEPT !.outcomes = made,
                                         !.last_exc = IF Catches(p.exceptions, outcome)
                                                      THEN e ELSE @,
                                         !.result = [kind |-> "raise", exc |-> e]]
                 /\ pc' = "raised"
                 /\ UNCHANGED <<attempt, sleeps>>
            ELSE /\ call' = [call EXCEPT !.outcomes = made, !.last_exc = e]
                 /\ pc' = "retry_loop"
                 /\ attempt' = attempt + 1
                 /\ sleeps' = Append(sleeps, r.wait)
    /\ UNCHANGED <<world, clock, runs, exit, did, args, eff, point, output_path,
                   previous, data, before, shadow>>

InitRetry == Init

NextRetry ==
    \/ RetryStart
    \/ RetryAttempt
    \/ RetryFallThrough

SpecRetry == InitRetry /\ [][NextRetry]_vars


\* The outcome t of an attempt is an exception of the policy's retryable set
InRetryableSet(t) ==
    t # "ok" /\ (t \in call.policy.exceptions \/ "Exception" \in call.policy.exceptions)

\* The first k attempts all raised retryable exceptions
FailedRetryably(k) ==
    /\ k <= Len(call.outcomes)
    /\ \A i \in 1..k : InRetryableSet(call.outcomes[i])

RECURSIVE SumSeq(_)
SumSeq(s) == IF Len(s) = 0 THEN 0 ELSE Head(s) + SumSeq(Tail(s))

\* C16: with max_retries n >= 1, after k < n attempts that all raised a
\* retryable exception retry_call has slept k times and is about to make
\* attempt k + 1; when that attempt succeeds it returns that value, after
\* exactly k + 1 invocations and k sleeps, and a call that returned made no
\* invocation after its one success.
C16_ReturnsFirstSuccess ==
    (call.op = "retry_call" /\ call.policy.max_retries >= 1) =>
        LET n == call.policy.max_retries
            made == Len(call.outcomes)
        IN  /\ (made < n /\ FailedRetryably(made)) =>
                  (pc = "retry_loop" /\ attempt = made + 1 /\ Len(sleeps) = made)
            /\ (made >= 1 /\ made <= n /\ FailedRetryably(made - 1)
                  /\ call.outcomes[made] = "ok") =>
                  /\ pc = "returned"
                  /\ call.result = [kind |-> "return", value |-> made]
                  /\ Len(sleeps) = made - 1
            /\ pc = "returned" =>
                  /\ call.outcomes[made] = "ok"
                  /\ \A i \in 1..(made - 1) : call.outcomes[i] # "ok"

\* Scenario C: two failures, success on the third of three attempts
C16_Witness ==
    /\ call.op = "retry_call" /\ pc = "returned"
    /\ call.policy.max_retries = 3
    /\ Len(call.outcomes) = 3
    /\ call.result.value = 3
    /\ sleeps = <<15, 30>>


\* C17: with max_retries n >= 1 and every attempt raising a retryable
\* exception, retry_call makes exactly n invocations and n - 1 sleeps (none
\* after the last attempt) and then raises the exception of the n-th
\* invocation itself.
C17_ExhaustionRaisesLast ==
    (/\ call.op = "retry_call" /\ call.policy.max_retries >= 1
     /\ FailedRetryably(Len(call.outcomes))) =>
        LET n == call.policy.max_retries
            made == Len(call.outcomes)
        IN  /\ made <= n
            /\ made < n => (pc = "retry_loop" /\ call.result = None)
            /\ made = n =>
                  /\ pc = "raised"
                  /\ Len(sleeps) = n - 1
                  /\ call.result = [kind |-> "raise",
                                    exc |-> [by |-> n, type |-> call.outcomes[n]]]

\* Scenario D: two attempts allowed, both raise, one wait
C17_Witness ==
    /\ call.op = "retry_call" /\ pc = "raised"
    /\ call.policy.max_retries = 2
    /\ FailedRetryably(2)
    /\ Len(sleeps) = 1
    /\ call.result.exc.by = 2

\* C18: the i-th sleep of a call is base_sleep * backoff_factor ^ (i - 1):
\* the first is base_sleep, each is at least the one before it (the factors
\* here are >= 1), none is capped, and the total is the geometric sum.
C18_BackoffSchedule ==
    call.op = "retry_call" =>
        LET b == call.policy.base_sleep
            f == call.policy.backoff_factor
            k == Len(sleeps)
        IN  /\ \A i \in 1..k : sleeps[i] = b * f ^ (i - 1)
            /\ k >= 1 => sleeps[1] = b
            /\ \A i \in 1..(k - 1) : sleeps[i] <= sleeps[i + 1]
            /\ SumSeq(sleeps) * (f - 1) = b * (f ^ k - 1)
            /\ f = 1 => SumSeq(sleeps) = k * b
            /\ call.policy.max_retries >= 1 =>
                  k = Len(call.outcomes) - (IF pc = "retry_loop" THEN 0 ELSE 1)

C18_Witness ==
    /\ call.op = "retry_call"
    /\ call.policy.base_sleep = 15 /\ call.policy.backoff_factor = 2
    /\ sleeps = <<15, 30, 60>>
    /\ SumSeq(sleeps) = 105

\* C19: an attempt that raises an exception outside the retryable set ends
\* the call: that exception is raised, nothing is slept for it, and the
\* operation is not invoked again, however many attempts remain.
C19_NonRetryablePropagates ==
    call.op = "retry_call" =>
        \A i \in 1..Len(call.outcomes) :
            (call.outcomes[i] # "ok" /\ ~InRetryableSet(call.outcomes[i])) =>
                /\ i = Len(call.outcomes)
                /\ pc = "raised"
                /\ call.result = [kind |-> "raise",
                                  exc |-> [by |-> i, type |-> call.outcomes[i]]]
                /\ Len(sleeps) = i - 1

C19_Witness ==
    /\ call.op = "retry_call" /\ pc = "raised"
    /\ call.policy.max_retries = 4
    /\ call.policy.exceptions = {"GeocoderTimedOut"}
    /\ call.outcomes = <<"GeocoderTimedOut", "ValueError">>
    /\ Len(sleeps) = 1


\* The retry_call in progress made `attempt - 1` failed attempts out of at
\* most n, and slept base * 2 ^ (i - 1) tenths of a second after the i-th
UnderPolicy(n, base) ==
    /\ attempt \in 1..n
    /\ Len(sleeps) = attempt - 1
    /\ \A i \in 1..Len(sleeps) : sleeps[i] = base * 2 ^ (i - 1)

\* C20: geocoding is tried at most 4 times from 1.5 s, the street network at
\* most 3 times from 1.5 s, water and parks at most 3 times each from 1.0 s,
\* every layer counting its attempts from 1; the layers come in the order
\* network, water, parks; when a layer has used up its attempts the run is in
\* the error exit, no later layer was fetched and nothing was written to the
\* map cache.
C20_PerSitePolicies ==
    /\ pc = "geocode" => UnderPolicy(4, 15)
    /\ pc = "fetch_graph" => (UnderPolicy(3, 15) /\ did \cap {"graph", "water", "parks"} = {})
    /\ pc = "fetch_water" =>
          (UnderPolicy(3, 10) /\ "graph" \in did /\ did \cap {"water", "parks"} = {})
    /\ pc = "fetch_parks" =>
          (UnderPolicy(3, 10) /\ {"graph", "water"} \subseteq did /\ "parks" \notin did)
    /\ "parks" \in did => {"fetch", "graph", "water"} \subseteq did
    /\ "water" \in did => {"fetch", "graph"} \subseteq did
    /\ "geocode_exhausted" \in did =>
          (/\ pc = "error" /\ exit = 1 /\ attempt = 4 /\ Len(sleeps) = 3
           /\ did \cap (MapWorkEvents \cup RecordEvents \cup {"registry_lookup"}) = {})
    /\ "fetch_exhausted" \in did =>
          (/\ pc = "error" /\ exit = 1 /\ attempt = 3 /\ Len(sleeps) = 2
           /\ "parks" \notin did
           /\ did \cap ({"cache_write", "save_failed", "render"} \cup RecordEvents) = {})

\* Water gives up after the network went through
C20_Witness ==
    /\ "fetch_exhausted" \in did
    /\ "graph" \in did /\ "water" \notin did
    /\ pc = "error"
    /\ sleeps = <<10, 20>>


\* A size argument that begins with "custom:" and is not WIDTHxHEIGHT in digits
MalformedCustomSize(size) ==
    /\ Len(size) >= 7 /\ SubSeq(size, 1, 7) = <<"c", "u", "s", "t", "o", "m", ":">>
    /\ LET rest == SubSeq(size, 8, Len(size))
           xs == {i \in 1..Len(rest) : rest[i] = "x"}
           digits == {"0", "1", "2", "3", "4", "5", "6", "7", "8", "9"}
       IN  \/ Cardinality(xs) # 1
           \/ \E i \in xs :
                \/ i = 1 \/ i = Len(rest)
                \/ \E j \in 1..Len(rest) : j # i /\ rest[j] \notin digits

InvalidRequest(a) ==
    ~a.list_themes /\ (a.city = <<>> \/ a.country = <<>> \/ MalformedCustomSize(a.size))

\* C21: a run whose --city or --country is missing, or whose custom size is
\* malformed, is in the error exit with status 1 from its first step on, with
\* no geocoding, registry lookup, map-cache access, fetch or render done, and
\* that step leaves the registry, the map cache and the posters untouched.
C21_ValidationFailsFirst ==
    /\ []((pc # "idle" /\ InvalidRequest(args)) =>
            /\ pc = "error" /\ exit = 1
            /\ did \subseteq {"validation_error", "size_error"}
            /\ did # {}
            /\ point = None /\ previous = None /\ data = None)
    /\ [][InvalidRequest(args') => UNCHANGED world]_vars

C21_Witness ==
    /\ pc = "error" /\ exit = 1
    /\ did = {"size_error"}
    /\ MalformedCustomSize(args.size)
    /\ index.kind = "map" /\ DOMAIN index.entries # {}


\* C22: a finished run has exit status 0 exactly when it listed the themes,
\* rendered and recorded a poster, or took the idempotent skip, and status 1
\* otherwise.
C22_ExitStatusMatchesOutcome ==
    pc \in Terminal =>
        /\ exit \in {0, 1}
        /\ exit = 0 <=> \/ "list_themes" \in did
                        \/ {"render", "registry_write"} \subseteq did
                        \/ "skip" \in did


\* The positions of a run that passed validation and is not yet over
Running ==
    {"geocode", "check_registry", "invalidate", "check_cache", "fetch_get",
     "fetch_graph", "fetch_water", "fetch_parks", "fetch_save", "save", "render",
     "record", "final"}

\* C23: from the first step after validation the effective distance and DPI
\* are fixed for the run; the distance lies in [1500, 60000]; the DPI is the
\* --dpi value if given, else 150, 300 or 600 by --quality; the record that
\* is saved and the cache file that is written carry these same values.
C23_DerivedParametersFixed ==
    /\ [](/\ pc \in Running =>
                /\ eff.distance >= 1500 /\ eff.distance <= 60000
                /\ eff.dpi = IF args.dpi_set THEN args.dpi
                             ELSE CASE args.quality = "screen" -> 150
                                    [] args.quality = "print" -> 300
                                    [] args.quality = "high" -> 600
          /\ (pc \in Running /\ previous # None) =>
                (previous.distance_m = eff.distance /\ previous.dpi = eff.dpi)
          /\ (pc \in Running /\ "cache_write" \in did /\ "save_failed" \notin did) =>
                <<Fmt6(point.lat), Fmt6(point.lon), eff.distance>> \in DOMAIN cache
          /\ (pc \in Running /\ "registry_saved" \in did) =>
                \E k \in DOMAIN index.entries :
                    /\ index.entries[k].generated_at = clock
                    /\ index.entries[k].distance_m = eff.distance
                    /\ index.entries[k].dpi = eff.dpi)
    /\ [][(pc \in Running) =>
             (pc' \in Running \cup Terminal /\ eff' = eff /\ args' = args)]_vars

\* A distance given below the minimum, recorded as the minimum
C23_Witness ==
    /\ pc = "final"
    /\ args.distance = 500 /\ eff.distance = 1500 /\ eff.dpi = 150
    /\ "registry_saved" \in did
    /\ index.entries[RunKey].distance_m = 1500


---------------------------------------------------------------------------
(* src/output_cache.py: record_new_output run by two processes at once, a   *)
(* step for the load, for the open("w") and for the dump                   *)

Procs == {1, 2}

Other(p) == 3 - p

\* A process that has not called record_new_output yet
ProcIdle ==
    [pc |-> "idle", arg |-> None, loaded |-> NoEntries, mine |-> NoEntries,
     overlaid |-> FALSE, at |-> "none"]

\* The registry as an earlier, complete run left it
OldRegistry ==
    LET p == CHOOSE q \in RegParams : q.city = S_Rome
    IN  IndexMap(MakeOutputKey(p) :>
                 NewRecord(p, GenerateOutputFilename(p.city, p.theme, p.format, 0), 0))

\* The mutant opens the registry for update, truncating it, to load it
RaceLoadTruncating(p) ==
    /\ call[p].pc = "idle"
    /\ \E a \in RegParams :
         LET loaded == LoadOutputIndex(index)
             path == GenerateOutputFilename(a.city, a.theme, a.format, clock + 1)
         IN  call' = [call EXCEPT ![p] =
                        [@ EXCEPT !.pc = "loaded", !.arg = a, !.loaded = loaded.entries,
                                  !.mine = (MakeOutputKey(a) :> NewRecord(a, path, clock + 1))
                                           @@ loaded.entries]]
    /\ index' = IndexGarbage
    /\ clock' = clock + 1
    /\ UNCHANGED <<cache, files, runs, pc, exit, did, local, before, shadow>>

\* Lines 82-96: load_output_index, then the new entry is put into the loaded
\* mapping in memory (TypeError when what was loaded is no mapping)
RaceLoad(p) ==
    /\ call[p].pc = "idle"
    /\ \E a \in RegParams :
         LET loaded == LoadOutputIndex(index)
             path == GenerateOutputFilename(a.city, a.theme, a.format, clock + 1)
         IN  call' = [call EXCEPT ![p] =
                        IF loaded.kind # "map"
                        THEN [@ EXCEPT !.pc = "raised", !.arg = a]
                        ELSE [@ EXCEPT !.pc = "loaded", !.arg = a,
                                       !.loaded = loaded.entries,
                                       !.mine = (MakeOutputKey(a) :> NewRecord(a, path, clock + 1))
                                                @@ loaded.entries]]
    /\ clock' = clock + 1
    /\ UNCHANGED <<world, runs, pc, exit, did, local, before, shadow>>

\* save_output_index, line 54: open("w") empties the file; a failure to open
\* is swallowed and leaves it alone
RaceOpen(p) ==
    /\ call[p].pc = "loaded"
    /\ \E io \in {"ok", "open_fail"} :
         IF io = "ok"
         THEN /\ index' = IndexGarbage
              /\ call' = [call EXCEPT ![p].pc = "opened"]
         ELSE /\ index' = index
              /\ call' = [call EXCEPT ![p].pc = "failed"]
    /\ UNCHANGED <<cache, files, clock, runs, pc, exit, did, local, before, shadow>>

\* save_output_index, line 55 and the close: the text lands at offset 0; when
\* the other process wrote its text while this one held the file open, what
\* remains behind this text may be the tail of the other's
RaceWrite(p) ==
    /\ call[p].pc = "opened"
    /\ \E io \in {"ok", "write_fail"}, tail \in BOOLEAN :
         IF io = "ok"
         THEN /\ tail => call[p].overlaid
              /\ index' = IF tail THEN IndexGarbage ELSE IndexMap(call[p].mine)
              /\ call' = [q \in Procs |->
                            IF q = p THEN [call[q] EXCEPT !.pc = "saved"]
                            ELSE IF call[q].pc = "opened"
                                 THEN [call[q] EXCEPT !.overlaid = TRUE]
                                 ELSE call[q]]
              /\ before' = p
         ELSE /\ ~tail
              /\ index' = IndexGarbage
              /\ call' = [call EXCEPT ![p].pc = "failed"]
              /\ before' = before
    /\ UNCHANGED <<cache, files, clock, runs, pc, exit, did, local, shadow>>

\* The process is killed between two steps of record_new_output
RaceCrash(p) ==
    /\ call[p].pc \in {"loaded", "opened"}
    /\ call' = [call EXCEPT ![p].pc = "crashed", ![p].at = call[p].pc]
    /\ UNCHANGED <<world, clock, runs, pc, exit, did, local, before, shadow>>

InitRace ==
    /\ index \in {IndexMissing, IndexMap(NoEntries), OldRegistry}
    /\ shadow = index
    /\ call = [p \in Procs |-> ProcIdle]
    /\ before = 0
    /\ cache = <<>>
    /\ files = {}
    /\ clock = 0
    /\ runs = 0
    /\ NoRun

NextRace ==
    \/ \E p \in Procs : RaceLoad(p)
    \/ \E p \in Procs : RaceOpen(p)
    \/ \E p \in Procs : RaceWrite(p)
    \/ \E p \in Procs : RaceCrash(p)

SpecRace == InitRace /\ [][NextRace]_vars

\* Both processes loaded the registry as it was at the start, and both
\* persisted without an I/O error
BothSavedFromStart ==
    \A p \in Procs :
        /\ call[p].pc = "saved"
        /\ call[p].loaded = LoadOutputIndex(shadow).entries

\* C24: no interleaving of two record_new_output calls makes one of them
\* raise; when both loaded before either persisted and the keys differ, a
\* registry file that is left readable holds the last writer's mapping only,
\* without the record of the other.
C24_LastWriterWins ==
    /\ \A p \in Procs : call[p].pc # "raised"
    /\ (/\ BothSavedFromStart
        /\ MakeOutputKey(call[1].arg) # MakeOutputKey(call[2].arg)
        /\ index.kind = "map") =>
           LET w == before
               l == Other(before)
               k == MakeOutputKey(call[l].arg)
           IN  /\ index.entries = call[w].mine
               /\ (k \in DOMAIN index.entries =>
                     index.entries[k] # call[l].mine[k])

\* The lost update: the registry had no entries, both saved, one record is left
C24_Witness ==
    /\ BothSavedFromStart
    /\ shadow = IndexMap(NoEntries)
    /\ index.kind = "map"
    /\ DOMAIN index.entries = {MakeOutputKey(call[before].arg)}
    /\ MakeOutputKey(call[Other(before)].arg) \notin DOMAIN index.entries


\* C26: a record_new_output that is killed after it loaded the mapping and
\* before it opened the file for writing leaves the registry file as it was:
\* with no other writer about, every lookup returns what it returned before
\* the call, and the killed call's record is not in the file.
C26_CrashBeforePersistKeepsFile ==
    /\ [](\A p \in Procs :
            (/\ call[p].pc = "crashed" /\ call[p].at = "loaded"
             /\ call[Other(p)].pc = "idle") =>
                /\ index = shadow
                /\ \A q \in RegParams :
                      CheckPreviousOutput(index, q) = CheckPreviousOutput(shadow, q)
                /\ (index.kind = "map" =>
                      \A k \in DOMAIN index.entries : index.entries[k].generated_at = 0))
    /\ [][\A p \in Procs :
            (call[p].pc = "idle" /\ call'[p].pc = "loaded") => index' = index]_vars
    /\ [][\A p \in Procs :
            (call[p].pc = "loaded" /\ call'[p].pc = "crashed") => index' = index]_vars

C26_Witness ==
    /\ call[1].pc = "crashed" /\ call[1].at = "loaded"
    /\ call[2].pc = "idle"
    /\ shadow = OldRegistry
    /\ call[1].arg.city = S_rome_padded
    /\ CheckPreviousOutput(index, call[1].arg).value = None
    /\ CheckPreviousOutput(index, CHOOSE q \in RegParams : q.city = S_Rome).value # None


\* C25: with the registry file a readable mapping, record_new_output leaves
\* the record of every key but its own as it was, and check_previous_output
\* does not change the file.
C25_RecordTouchesOnlyItsKey ==
    /\ (call.op = "record" /\ call.pre \in {"map", "present"}) => call.frame
    /\ call.op = "lookup" => ~call.changed


\* Two queries print alike: the coordinates agree to 6 decimal places (sign
\* included) and the radius is the same
SameFormatted(q, r) ==
    /\ Fmt6(q.lat) = Fmt6(r.lat)
    /\ Fmt6(q.lon) = Fmt6(r.lon)
    /\ q.distance = r.distance

\* C27: the cache key of a query is fixed by its coordinates to 6 decimal
\* places and its radius, and by nothing else: two queries have one key
\* exactly when they print alike, whatever the cache holds and whatever was
\* called before; a put, a get and a deletion for a query all act on the file
\* of that key and on no other.
C27_KeyIsPureFunction ==
    /\ \A q, r \in CacheQueries : (QueryKey(q) = QueryKey(r)) <=> SameFormatted(q, r)
    /\ call.op \in {"put", "get", "invalidate"} =>
          /\ call.frame
          /\ (call.op = "put" /\ call.io = "ok") =>
                (\A r \in CacheQueries :
                    SameFormatted(r, call.arg) =>
                        GetCachedData(cache, r.lat, r.lon, r.distance).value = call.path)
          /\ (call.op = "invalidate" /\ ~call.raised) =>
                (\A r \in CacheQueries :
                    SameFormatted(r, call.arg) =>
                        GetCachedData(cache, r.lat, r.lon, r.distance).value = None)
          /\ (call.op = "get" /\ before.op = "put" /\ before.io = "ok") =>
                (SameFormatted(call.arg, before.arg) => call.ret = before.path)

\* A put for one point read back through a point that differs in the 7th
\* decimal place, and missed with another radius
C27_Witness ==
    /\ call.op = "get" /\ before.op = "put" /\ before.io = "ok"
    /\ call.arg # before.arg
    /\ SameFormatted(call.arg, before.arg)
    /\ call.ret = before.path
    /\ \E r \in CacheQueries :
          /\ r.lat = call.arg.lat /\ r.lon = call.arg.lon /\ r.distance # call.arg.distance
          /\ GetCachedData(cache, r.lat, r.lon, r.distance).value = None


---------------------------------------------------------------------------
(* main.py lines 161-218: what a command line resolves to, and its key *)

\* Requests that differ in the spelling of --size and --theme, with the
\* distance given by the user or left to the preset, and requests whose city
\* and country contain the separator of the key string
RequestArgs ==
    { [BaseArgs EXCEPT !.size = s, !.theme = t, !.distance = 6000, !.dist_form = "-d N"] :
        s \in {S_desktop_fhd, S_Desktop_FHD}, t \in {S_noir, S_Noir} }
    \cup { [BaseArgs EXCEPT !.size = s] : s \in {S_desktop_fhd, S_Desktop_FHD, S_default} }
    \cup { [BaseArgs EXCEPT !.size = S_desktop_fhd, !.distance = 6000, !.dist_form = f] :
             f \in {"-dN", "--distance=N"} }
    \cup { [BaseArgs EXCEPT !.city = S_a_bar_b, !.country = S_c],
           [BaseArgs EXCEPT !.city = S_a, !.country = S_b_bar_c] }

\* The values main derives for a command line, and the key it looks up
Resolve(a) ==
    LET e == [dpi |-> EffectiveDpi(a), distance |-> EffectiveDistance(a),
              figsize |-> ResolveSize(a).figsize, theme |-> LoadTheme(a.theme)]
    IN  [op |-> "resolve", arg |-> a, params |-> Params(a, e),
         key |-> MakeOutputKey(Params(a, e)),
         figsize |-> e.figsize, dpi |-> e.dpi, distance |-> e.distance,
         format |-> a.format, theme |-> e.theme]

\* One more command line is resolved; the one before it is kept for comparison
ResolveRequest ==
    /\ runs < MaxCalls
    /\ \E a \in RequestArgs :
         /\ ResolveSize(a).ok
         /\ call' = Resolve(a)
    /\ before' = call
    /\ runs' = runs + 1
    /\ UNCHANGED <<world, clock, pc, exit, did, local, shadow>>

NextRequests == ResolveRequest

SpecRequests == Init /\ [][NextRequests]_vars

BothResolved == call.op = "resolve" /\ before.op = "resolve"

\* C28: two requests with the same registry key resolve to the same figure
\* size, DPI, distance, format and theme.
C28_KeyDeterminesRendering ==
    (BothResolved /\ call.key = before.key) =>
        /\ call.figsize = before.figsize
        /\ call.dpi = before.dpi
        /\ call.distance = before.distance
        /\ call.format = before.format
        /\ call.theme = before.theme


\* The parameters of a request with the text fields in lower case
LowerTuple(p) ==
    <<Lower(p.city), Lower(p.country), Lower(p.theme), p.distance, Lower(p.size),
      p.dpi, Lower(p.format)>>

\* C30: two requests whose lower-cased parameter tuples differ in a component
\* have different key strings.
C30_KeyStringInjective ==
    (BothResolved /\ LowerTuple(call.params) # LowerTuple(before.params))
        => call.key # before.key


\* C29: check_previous_output never raises, and returns absent whenever the
\* registry file is missing, is not JSON, or is JSON that is no mapping.
C29_LookupNeverRaises ==
    call.op = "lookup" =>
        /\ ~call.raised
        /\ call.pre # "present" => call.ret = None


\* C31: when the persist step of record_new_output fails at opening or while
\* writing, the call does not raise and every record that was in the registry
\* before the call is still there after it.
C31_FailedPersistKeepsEntries ==
    (/\ call.op = "record" /\ call.io \in {"open_fail", "write_fail"}
     /\ call.path.root /\ call.pre \in {"map", "present"}) =>
        /\ ~call.raised
        /\ call.frame
        /\ call.pre = "present" => IndexKind(index, call.arg) = "present"


\* C32: a get that follows a failed put on a key that held a valid entry still
\* returns an entry for that key, and a get never returns anything but absent
\* or the payload of the key's most recent successful put.
C32_FailedPutKeepsEntry ==
    /\ (/\ call.op = "get" /\ before.op = "put"
        /\ before.io \in {"open_fail", "write_fail"}
        /\ before.pre = "valid"
        /\ QueryKey(before.arg) = QueryKey(call.arg)) =>
            call.ret # None
    /\ (call.op = "get" /\ call.ret # None) =>
            /\ QueryKey(call.arg) \in DOMAIN cache
            /\ cache[QueryKey(call.arg)].ok
            /\ call.ret = cache[QueryKey(call.arg)].data


\* C33: whenever a distance was given on the command line, in any form the
\* parser accepts, the effective distance is the given value clamped to
\* [1500, 60000], never scaled by the size preset.
C33_GivenDistanceNeverScaled ==
    (call.op = "resolve" /\ call.arg.dist_form # "none") =>
        call.distance = Clamp(call.arg.distance)


\* C34: the registry is looked up only after geocoding returned a location,
\* the idempotent skip included; a run whose geocoding ran out of attempts or
\* found no location is over with exit status 1 and has consulted neither the
\* registry nor the map cache; running out takes the 4 attempts of the
\* geocoding policy, and a "no location found" result ends the run in the step
\* that reports it, with no sleep and no further attempt.
C34_GeocodeBeforeRegistry ==
    /\ []((pc = "check_registry" \/ did \cap {"registry_lookup", "skip"} # {})
              => "geocode" \in did)
    /\ [](did \cap {"geocode_none", "geocode_exhausted"} # {} =>
              /\ pc = "error" /\ exit = 1
              /\ did \cap ({"geocode", "registry_lookup"} \cup WorkEvents
                           \cup MapWorkEvents \cup RecordEvents) = {})
    /\ []("geocode_exhausted" \in did =>
              (attempt = GEOCODE_MAX_RETRIES /\ Len(sleeps) = GEOCODE_MAX_RETRIES - 1))
    /\ [][("geocode_none" \in did' /\ "geocode_none" \notin did) =>
              (pc = "geocode" /\ pc' = "error" /\ UNCHANGED <<attempt, sleeps>>)]_vars

C34_Witness ==
    /\ pc = "done_cached" /\ exit = 0
    /\ {"geocode", "registry_lookup", "record_found", "skip"} \subseteq did
    /\ "geocode_none" \notin did
    /\ point # None


---------------------------------------------------------------------------
(* Termination: runs of main() and calls of retry_call in which every      *)
(* external call returns or raises, so that a started step is completed    *)

MaxLiveRuns == 2

\* The command lines run: one request, with and without --no-cache
LiveArgs == { [BaseArgs EXCEPT !.no_cache = n] : n \in BOOLEAN }

StartLive == StartWith(LiveArgs, MaxLiveRuns)

\* The steps of a run of main() after validation
RunStep ==
    \/ Geocode
    \/ CheckRegistry
    \/ InvalidateStep
    \/ CheckCache
    \/ FetchGet
    \/ FetchGraph
    \/ FetchWater
    \/ FetchParks
    \/ FetchSave
    \/ MainSave
    \/ Render
    \/ Record
    \/ Final

\* The steps of a started retry_call
RetryStep == RetryAttempt \/ RetryFallThrough

NextLive ==
    \/ StartLive
    \/ Geocode
    \/ CheckRegistry
    \/ InvalidateStep
    \/ CheckCache
    \/ FetchGet
    \/ FetchGraph
    \/ FetchWater
    \/ FetchParks
    \/ FetchSave
    \/ MainSave
    \/ Render
    \/ Record
    \/ Final
    \/ RetryStart
    \/ RetryAttempt
    \/ RetryFallThrough

\* A started run or call is not suspended for ever: the external call of the
\* step it is at returns or raises
SpecLive ==
    /\ Init
    /\ [][NextLive]_vars
    /\ WF_vars(RunStep)
    /\ WF_vars(RetryStep)

\* The positions at which a layer of the map is fetched
LayerPositions == {"fetch_graph", "fetch_water", "fetch_parks"}

\* The order of the positions of a run
Rank(p) ==
    CASE p = "geocode" -> 1
      [] p = "check_registry" -> 2
      [] p = "invalidate" -> 3
      [] p = "check_cache" -> 4
      [] p = "fetch_get" -> 5
      [] p = "fetch_graph" -> 6
      [] p = "fetch_water" -> 7
      [] p = "fetch_parks" -> 8
      [] p = "fetch_save" -> 9
      [] p = "save" -> 10
      [] p = "render" -> 11
      [] p = "record" -> 12
      [] p = "final" -> 13
      [] OTHER -> 14

\* An upper limit of the layer fetches invoked so far in the run: all the
\* attempts of the layers that are done, and the attempts at the current one
LayerFetchesAtMost ==
    LAYER_MAX_RETRIES * Cardinality(did \cap {"graph", "water", "parks"})
    + (IF pc \in LayerPositions \/ "fetch_exhausted" \in did THEN attempt ELSE 0)

\* C35: a run that passed validation reaches DONE, DONE_CACHED or the error
\* exit: it moves forward through its positions and stays at one only to make
\* the next attempt of a geocode or of a layer fetch, of which there are at
\* most 4 and at most 9 (3 for each of the 3 layers), and it renders at most
\* once. A call of retry_call returns or raises after at most max_retries
\* invocations, and after at least one when max_retries >= 1.
C35_RunsTerminate ==
    /\ (pc \in Running) ~> (pc \in Terminal)
    /\ (pc = "retry_loop") ~> (pc \in {"returned", "raised"})
    /\ [](pc = "geocode" => attempt \in 1..4)
    /\ [](pc \in LayerPositions => attempt \in 1..LAYER_MAX_RETRIES)
    /\ [](pc \in Running \cup Terminal => LayerFetchesAtMost <= 9)
    /\ [][(pc \in Running) =>
            \/ UNCHANGED vars
            \/ Rank(pc') > Rank(pc)
            \/ /\ pc' = pc /\ pc \in {"geocode"} \cup LayerPositions
               /\ attempt' = attempt + 1]_vars
    /\ [][pc = "render" => pc' # "render"]_vars
    /\ [](call.op = "retry_call" =>
            /\ Len(call.outcomes) <= call.policy.max_retries
            /\ (pc \in {"returned", "raised"} /\ call.policy.max_retries >= 1)
                  => Len(call.outcomes) >= 1)

\* The third layer ran out of its attempts after the first two were fetched
C35_Witness ==
    /\ pc = "error" /\ exit = 1
    /\ {"geocode", "graph", "water", "fetch_exhausted"} \subseteq did
    /\ attempt = LAYER_MAX_RETRIES
    /\ LayerFetchesAtMost = 9

===========================================================================
